---- MODULE Spec2Model ----
(***************************************************************************)
(* Profile Scout (src/main.py): the POST /profiles pipeline                *)
(*   keywords -> search -> domain filter -> concurrent extraction -> dedup *)
(* and its two pure helpers, is_profile_domain and deduplicate_profiles.   *)
(* Strings are sequences of one-character strings, so that lower-casing,   *)
(* stripping, splitting and URL parsing are computed, not assumed.         *)
(***************************************************************************)
EXTENDS Integers, Sequences, FiniteSets, TLC

VARIABLES
  pc,                 \* position of the extract_profiles handler
  OPENROUTER_API_KEY, \* TRUE iff the credential is configured
  SERPAPI_KEY,        \* TRUE iff the credential is configured
  llm,                \* what the chat-completion call did
  keywords,           \* result of extract_keywords_with_openrouter
  search_called,      \* TRUE once search_with_serpapi has been invoked
  inflight,           \* indices of keywords whose search query is in flight
  queries,            \* search queries that finished, in order
  all_urls,           \* search_with_serpapi: all_urls
  profile_urls,       \* extract_profiles: profile_urls
  profile_results,    \* asyncio.gather result slots
  settled,            \* indices of the extraction tasks that have settled
  completed,          \* the task results in the order the tasks settled
  overtakes,          \* completions that overtook an earlier pending task
  fetch_log,          \* per launched task: the URL fetched and what came back
  valid_profiles,     \* extract_profiles: valid_profiles
  response,           \* the HTTP response of the request
  fpc,                \* position of the pure-function harnesses
  d_in,               \* deduplicate_profiles harness: argument
  d_out,              \* deduplicate_profiles harness: result of one application
  d_out2,             \* deduplicate_profiles harness: result of re-application
  u_in,               \* is_profile_domain harness: the URL, in parts
  u_out               \* is_profile_domain harness: result

vars == <<pc, OPENROUTER_API_KEY, SERPAPI_KEY, llm, keywords, search_called, inflight, queries, all_urls, profile_urls, profile_results, settled, completed, overtakes, fetch_log, valid_profiles, response, fpc, d_in, d_out, d_out2, u_in, u_out>>

pipeline_vars == <<pc, OPENROUTER_API_KEY, SERPAPI_KEY, llm, keywords, search_called, inflight, queries, all_urls, profile_urls, profile_results, settled, completed, overtakes, fetch_log, valid_profiles, response>>

dedup_vars == <<d_in, d_out, d_out2>>

domain_vars == <<u_in, u_out>>

----------------------------------------------------------------------------
(* Python str operations on character sequences *)

UpperToLower ==
  ("A" :> "a") @@ ("B" :> "b") @@ ("C" :> "c") @@ ("D" :> "d") @@ ("E" :> "e") @@
  ("F" :> "f") @@ ("G" :> "g") @@ ("H" :> "h") @@ ("I" :> "i") @@ ("J" :> "j") @@
  ("K" :> "k") @@ ("L" :> "l") @@ ("M" :> "m") @@ ("N" :> "n") @@ ("O" :> "o") @@
  ("P" :> "p") @@ ("Q" :> "q") @@ ("R" :> "r") @@ ("S" :> "s") @@ ("T" :> "t") @@
  ("U" :> "u") @@ ("V" :> "v") @@ ("W" :> "w") @@ ("X" :> "x") @@ ("Y" :> "y") @@
  ("Z" :> "z")

LowerLetters == {UpperToLower[c] : c \in DOMAIN UpperToLower}

Digits == {"0", "1", "2", "3", "4", "5", "6", "7", "8", "9"}

\* the characters matched by \w and by \s
IsWordChar(c) == c \in (DOMAIN UpperToLower) \cup LowerLetters \cup Digits \cup {"_"}

IsSpaceChar(c) == c \in {" "}

\* str.lower()
lower(s) == [i \in 1..Len(s) |-> IF s[i] \in DOMAIN UpperToLower THEN UpperToLower[s[i]] ELSE s[i]]

\* str.rstrip(c): every trailing c is removed
rstrip(s, c) ==
  LET keep == {i \in 1..Len(s) : s[i] # c}
      last == IF keep = {} THEN 0 ELSE CHOOSE i \in keep : \A j \in keep : j <= i
  IN SubSeq(s, 1, last)

\* str.strip(): leading and trailing whitespace removed
strip(s) ==
  LET keep == {i \in 1..Len(s) : ~IsSpaceChar(s[i])}
      first == IF keep = {} THEN 1 ELSE CHOOSE i \in keep : \A j \in keep : i <= j
      last == IF keep = {} THEN 0 ELSE CHOOSE i \in keep : \A j \in keep : j <= i
  IN SubSeq(s, first, last)

\* str.startswith / str.endswith
startswith(s, p) == Len(s) >= Len(p) /\ SubSeq(s, 1, Len(p)) = p

endswith(s, p) == Len(s) >= Len(p) /\ SubSeq(s, Len(s) - Len(p) + 1, Len(s)) = p

\* str.split(sep) for a one-character separator
split(s, sep) ==
  LET cuts == {i \in 1..Len(s) : s[i] = sep}
      n == Cardinality(cuts)
      \* position of the k-th separator; 0 and Len(s)+1 are the two ends
      cut(k) == IF k = 0 THEN 0
                ELSE IF k = n + 1 THEN Len(s) + 1
                ELSE CHOOSE i \in cuts : Cardinality({j \in cuts : j <= i}) = k
  IN [k \in 1..(n + 1) |-> SubSeq(s, cut(k - 1) + 1, cut(k) - 1)]

\* first index at which c occurs in s at or after from, or 0
find(s, c, from) ==
  LET hits == {i \in from..Len(s) : s[i] = c}
  IN IF hits = {} THEN 0 ELSE CHOOSE i \in hits : \A j \in hits : i <= j

\* seq[:n]
Take(seq, n) == SubSeq(seq, 1, IF Len(seq) < n THEN Len(seq) ELSE n)

----------------------------------------------------------------------------
(* Configuration *)

PROFILE_DOMAINS == {
  <<"l", "i", "n", "k", "e", "d", "i", "n", ".", "c", "o", "m">>,
  <<"c", "r", "u", "n", "c", "h", "b", "a", "s", "e", ".", "c", "o", "m">>,
  <<"g", "i", "t", "h", "u", "b", ".", "c", "o", "m">>,
  <<"t", "w", "i", "t", "t", "e", "r", ".", "c", "o", "m">>,
  <<"m", "e", "d", "i", "u", "m", ".", "c", "o", "m">>,
  <<"a", "b", "o", "u", "t", ".", "m", "e">>,
  <<"x", "i", "n", "g", ".", "c", "o", "m">>,
  <<"a", "n", "g", "e", "l", ".", "c", "o">>,
  <<"w", "e", "l", "l", "f", "o", "u", "n", "d", ".", "c", "o", "m">>,
  <<"d", "r", "i", "b", "b", "b", "l", "e", ".", "c", "o", "m">>,
  <<"b", "e", "h", "a", "n", "c", "e", ".", "n", "e", "t">>,
  <<"s", "t", "a", "c", "k", "o", "v", "e", "r", "f", "l", "o", "w", ".", "c", "o", "m">>
}

----------------------------------------------------------------------------
(* urllib.parse.urlparse(url).netloc *)

SchemeChars == (DOMAIN UpperToLower) \cup LowerLetters \cup Digits \cup {"+", "-", "."}

\* urlsplit: an optional scheme up to the first ':', then, if the rest starts
\* with '//', the netloc up to the first of '/', '?', '#'.  A netloc with an
\* unbalanced '[' or ']' raises ValueError.  netloc keeps userinfo and port.
urlparse(url) ==
  LET i == find(url, ":", 1)
      has_scheme == /\ i > 1
                    /\ url[1] \in (DOMAIN UpperToLower) \cup LowerLetters
                    /\ \A k \in 1..(i - 1) : url[k] \in SchemeChars
      rest == IF has_scheme THEN SubSeq(url, i + 1, Len(url)) ELSE url
      has_netloc == Len(rest) >= 2 /\ rest[1] = "/" /\ rest[2] = "/"
      delims == {k \in 3..Len(rest) : rest[k] \in {"/", "?", "#"}}
      delim == IF delims = {} THEN Len(rest) + 1
               ELSE CHOOSE k \in delims : \A j \in delims : k <= j
      netloc == IF has_netloc THEN SubSeq(rest, 3, delim - 1) ELSE <<>>
      chars == {netloc[k] : k \in 1..Len(netloc)}
  IN [raises |-> ("[" \in chars /\ "]" \notin chars) \/ ("]" \in chars /\ "[" \notin chars),
      netloc |-> netloc]

----------------------------------------------------------------------------
(* is_profile_domain *)

\* the curated-set test of the loop over PROFILE_DOMAINS
matches_profile_domain(domain) ==
  \E profile_domain \in PROFILE_DOMAINS :
     domain = profile_domain \/ endswith(domain, <<".">> \o profile_domain)

\* the personal-domain heuristic
is_personal_domain(domain) ==
  /\ \E k \in 1..Len(domain) : domain[k] \in {"-", "_"}
  /\ \E k \in 1..Len(domain) : domain[k] = "."
  /\ LET parts == split(domain, ".")
     IN Len(parts) = 2 /\ Len(parts[1]) > 5

is_profile_domain(url) ==
  LET parsed == urlparse(url)
      netloc == lower(parsed.netloc)
      domain == IF startswith(netloc, <<"w", "w", "w", ".">>)
                THEN SubSeq(netloc, 5, Len(netloc)) ELSE netloc
  IN IF parsed.raises THEN FALSE   \* except: return False
     ELSE IF matches_profile_domain(domain) THEN TRUE
     ELSE IF is_personal_domain(domain) THEN TRUE
     ELSE FALSE

----------------------------------------------------------------------------
(* deduplicate_profiles *)

ProfileResult(name, title, url) == [name |-> name, title |-> title, url |-> url]

IsProfileResult(result) == DOMAIN result = {"name", "title", "url"}

\* profile.url.lower().rstrip('/')
normalized_url(profile) == rstrip(lower(profile.url), "/")

\* re.sub(r'[^\w\s]', '', profile.name.lower()).strip()
normalized_name(profile) ==
  strip(SelectSeq(lower(profile.name), LAMBDA c : IsWordChar(c) \/ IsSpaceChar(c)))

\* variant: only the URL is compared
is_unseen_url_only(profile, seen_urls, seen_names) ==
  normalized_url(profile) \notin seen_urls

\* the if of the loop body: is this candidate appended?
is_unseen(profile, seen_urls, seen_names) ==
  normalized_url(profile) \notin seen_urls /\ normalized_name(profile) \notin seen_names

\* the for loop, from candidate i on
RECURSIVE dedup_loop(_, _, _, _, _)
dedup_loop(profiles, i, seen_urls, seen_names, unique_profiles) ==
  IF i > Len(profiles) THEN unique_profiles
  ELSE IF is_unseen(profiles[i], seen_urls, seen_names)
       THEN dedup_loop(profiles, i + 1,
                       seen_urls \cup {normalized_url(profiles[i])},
                       seen_names \cup {normalized_name(profiles[i])},
                       Append(unique_profiles, profiles[i]))
       ELSE dedup_loop(profiles, i + 1, seen_urls, seen_names, unique_profiles)

\* variant of the loop: every candidate is marked as seen, kept or not
RECURSIVE dedup_loop_mark_all(_, _, _, _, _)
dedup_loop_mark_all(profiles, i, seen_urls, seen_names, unique_profiles) ==
  IF i > Len(profiles) THEN unique_profiles
  ELSE dedup_loop_mark_all(profiles, i + 1,
                           seen_urls \cup {normalized_url(profiles[i])},
                           seen_names \cup {normalized_name(profiles[i])},
                           IF is_unseen(profiles[i], seen_urls, seen_names)
                           THEN Append(unique_profiles, profiles[i]) ELSE unique_profiles)

deduplicate_profiles_mark_all(profiles) == dedup_loop_mark_all(profiles, 1, {}, {}, <<>>)

\* variant: the candidates are visited last to first
deduplicate_profiles_reversed(profiles) ==
  dedup_loop([i \in 1..Len(profiles) |-> profiles[Len(profiles) + 1 - i]], 1, {}, {}, <<>>)

deduplicate_profiles(profiles) == dedup_loop(profiles, 1, {}, {}, <<>>)

----------------------------------------------------------------------------
(* Harness for deduplicate_profiles: the function applied to every list of *)
(* at most MaxCandidates candidates, and then to its own result.           *)

MaxCandidates == 3

CandidateNames == {
  <<"J", "a", "n", "e", " ", "D", "o", "e">>,
  <<"j", "a", "n", "e", " ", "d", "o", "e", "!">>,
  <<"J", ".", "D", "o", "e">>
}

CandidateUrls == {
  <<"h", "t", "t", "p", "s", ":", "/", "/", "a", ".", "c", "o", "m", "/", "1">>,
  <<"h", "t", "t", "p", "s", ":", "/", "/", "A", ".", "c", "o", "m", "/", "1", "/">>,
  <<"h", "t", "t", "p", "s", ":", "/", "/", "a", ".", "c", "o", "m", "/", "2">>
}

Candidates == {ProfileResult(n, <<>>, u) : n \in CandidateNames, u \in CandidateUrls}

CandidateLists == UNION {[1..n -> Candidates] : n \in 0..MaxCandidates}

----------------------------------------------------------------------------
(* Harness for is_profile_domain: URLs assembled from a host of at most    *)
(* MaxLabels labels, written with or without scheme, userinfo, port, path. *)

MaxLabels == 3

HostLabels == {
  <<"l", "i", "n", "k", "e", "d", "i", "n">>,
  <<"n", "o", "t", "l", "i", "n", "k", "e", "d", "i", "n">>,
  <<"s", "u", "b">>,
  <<"w", "w", "w">>,
  <<"j", "a", "n", "e", "-", "d", "o", "e">>,
  <<"a", "b", "-", "c", "d">>,
  <<"a", "b", "_", "c", "d", "e">>,
  <<"a", "b", "c">>,
  <<"c", "o", "m">>,
  <<"i", "o">>,
  <<"G", "i", "t", "H", "u", "b">>,
  <<"[", "x">>
}

Hosts == UNION {[1..n -> HostLabels] : n \in 1..MaxLabels}

UrlShapes == {"plain", "path", "port", "userinfo", "noscheme"}

RECURSIVE join(_, _)
join(parts, sep) ==
  IF Len(parts) = 0 THEN <<>>
  ELSE IF Len(parts) = 1 THEN parts[1]
  ELSE parts[1] \o sep \o join(Tail(parts), sep)

HTTPS == <<"h", "t", "t", "p", "s", ":", "/", "/">>

\* the URL string of a host written in the given shape
render(u) ==
  LET host == join(u.host, <<".">>)
  IN CASE u.shape = "plain"    -> HTTPS \o host
       [] u.shape = "path"     -> HTTPS \o host \o <<"/", "i", "n", "/", "x">>
       [] u.shape = "port"     -> HTTPS \o host \o <<":", "4", "4", "3", "/", "x">>
       [] u.shape = "userinfo" -> HTTPS \o <<"m", "e", "@">> \o host \o <<"/">>
       [] u.shape = "noscheme" -> host \o <<"/", "i", "n", "/", "x">>

IdleUrl == [host |-> <<>>, shape |-> "plain"]

----------------------------------------------------------------------------
(* The world of one request: what the LLM, the search provider and the     *)
(* profile pages can answer.                                               *)

uA  == <<"h", "t", "t", "p", "s", ":", "/", "/", "l", "i", "n", "k", "e", "d", "i", "n", ".", "c", "o", "m", "/", "i", "n", "/", "j", "a", "n", "e">>
uA2 == <<"h", "t", "t", "p", "s", ":", "/", "/", "L", "i", "n", "k", "e", "d", "I", "n", ".", "c", "o", "m", "/", "i", "n", "/", "j", "a", "n", "e", "/">>
uG  == <<"h", "t", "t", "p", "s", ":", "/", "/", "g", "i", "t", "h", "u", "b", ".", "c", "o", "m", "/", "j", "a", "n", "e">>
uP  == <<"h", "t", "t", "p", "s", ":", "/", "/", "j", "a", "n", "e", "-", "d", "o", "e", ".", "c", "o", "m">>
uD  == <<"h", "t", "t", "p", "s", ":", "/", "/", "g", "i", "t", "h", "u", "b", ".", "c", "o", "m", "/", "d", "e", "e">>
uX  == <<"h", "t", "t", "p", "s", ":", "/", "/", "a", "c", "m", "e", ".", "c", "o", "m", "/", "b", "l", "o", "g">>

\* an organic result without a "link" field
NoLink == <<>>

\* a provider answer of twelve organic results, eleven of them profile URLs
BigResults == <<uD, uD, uD, uD, uD, uG, uD, uD, uD, uD, uX, uA>>

TransportError == [kind |-> "error", status |-> 0, organic_results |-> <<>>]

HttpAnswer(status, organic_results) == [kind |-> "http", status |-> status, organic_results |-> organic_results]

\* what the search provider may answer to the query for a keyword
SearchIndex(keyword) ==
  CASE keyword = <<"a">> -> {TransportError, HttpAnswer(500, <<uD>>), HttpAnswer(200, <<uA, uX>>)}
    [] keyword = <<"b">> -> {TransportError, HttpAnswer(200, <<uG, NoLink, uP>>), HttpAnswer(200, <<uA2, uG>>)}
    [] keyword = <<"p">> -> {HttpAnswer(200, BigResults)}
    [] keyword = <<"q">> -> {HttpAnswer(200, BigResults), HttpAnswer(503, <<uA>>)}
    [] keyword = <<"r">> -> {HttpAnswer(200, <<>>), HttpAnswer(200, <<uX>>)}
    [] keyword = <<"s">> -> {TransportError, HttpAnswer(200, <<>>)}
    [] keyword = <<"t">> -> {HttpAnswer(200, <<uA>>)}
    [] OTHER -> {HttpAnswer(200, <<uD>>)}

\* the reply texts of the LLM
Contents == {
  <<>>,
  <<" ", ",", " ">>,
  <<"a">>,
  <<"a", ",", " ", "b">>,
  <<"p", ",", "q", ",", "r", ",", "s", ",", "t", ",", "u", ",", "v", ",", "w", ",", "x", ",", "y", ",", "z">>
}

LLMOutcomes ==
  {[kind |-> "error", status |-> 0, content |-> <<>>], [kind |-> "http", status |-> 500, content |-> <<>>]}
  \cup {[kind |-> "http", status |-> 200, content |-> c] : c \in Contents}

\* what fetching a page may do: a response with the name and title the
\* extraction cascade recovers from its HTML (empty: none recovered), a
\* timeout or transport error, or a cancellation of the task
Page(status, name, title) == [kind |-> "http", status |-> status, name |-> name, title |-> title]

FetchTimeout == [kind |-> "timeout", status |-> 0, name |-> <<>>, title |-> <<>>]

FetchCancelled == [kind |-> "cancelled", status |-> 0, name |-> <<>>, title |-> <<>>]

Web(url) ==
  CASE url = uA  -> {Page(200, <<"J", "a", "n", "e", " ", "D", "o", "e">>, <<" ", "C", "T", "O">>), FetchTimeout}
    [] url = uA2 -> {Page(200, <<"J", "a", "n", "e", " ", "D", "o", "e">>, <<>>)}
    [] url = uG  -> {Page(200, <<"j", "a", "n", "e", " ", "d", "o", "e", "!", " ">>, <<>>), Page(404, <<"N", "o", "t", " ", "F", "o", "u", "n", "d">>, <<>>)}
    [] url = uP  -> {Page(200, <<"J", ".", "D", "o", "e">>, <<>>), Page(200, <<" ">>, <<>>), FetchCancelled}
    [] url = uD  -> {Page(200, <<"D", "e", "e">>, <<>>)}
    [] OTHER     -> {Page(200, <<"A", "c", "m", "e">>, <<>>)}

----------------------------------------------------------------------------
(* The stages of extract_profiles *)

\* keywords = [k.strip() for k in content.split(',') if k.strip()][:10]
parse_keywords(content) ==
  LET tokens == split(content, ",")
      stripped == [k \in 1..Len(tokens) |-> strip(tokens[k])]
  IN Take(SelectSeq(stripped, LAMBDA k : Len(k) > 0), 10)

\* variant: the empty keyword list is not short-circuited
no_keywords_never(kws) == FALSE

\* if not keywords: return ProfilesResponse(profiles=[])
no_keywords(kws) == Len(kws) = 0

\* variant: every keyword is searched
search_all_keywords(kws) == kws

\* for keyword in keywords[:5]
search_keywords(kws) == Take(kws, 5)

\* variant: the status of the answer is not looked at
collected_urls_any_status(answer) ==
  SelectSeq(answer.organic_results, LAMBDA url : Len(url) > 0)

\* what one answer adds to all_urls: the non-empty links of a 200 answer
collected_urls(answer) ==
  IF answer.status = 200 THEN SelectSeq(answer.organic_results, LAMBDA url : Len(url) > 0)
  ELSE <<>>

\* variant: truncated before filtering
truncate_then_filter(urls) == SelectSeq(Take(urls, 20), is_profile_domain)

\* profile_urls = [url for url in urls if is_profile_domain(url)][:20]
filter_profile_urls(urls) == Take(SelectSeq(urls, is_profile_domain), 20)

NoneResult == [none |-> TRUE]

ExceptionResult == [exception |-> "CancelledError"]

Pending == [pending |-> TRUE]

\* variant: the status of the page is not looked at
extract_profile_info_any_status(url, fetched) ==
  IF fetched.kind = "timeout" THEN NoneResult
  ELSE IF Len(fetched.name) > 0 /\ Len(strip(fetched.name)) > 0
       THEN ProfileResult(strip(fetched.name), strip(fetched.title), url)
       ELSE NoneResult

\* extract_profile_info on what the fetch did; every Exception maps to None
extract_profile_info(url, fetched) ==
  IF fetched.kind = "timeout" THEN NoneResult
  ELSE IF fetched.status # 200 THEN NoneResult
  ELSE IF Len(fetched.name) > 0 /\ Len(strip(fetched.name)) > 0
       THEN ProfileResult(strip(fetched.name), strip(fetched.title), url)
       ELSE NoneResult

\* what the task's slot of asyncio.gather(..., return_exceptions=True) holds
task_result(url, fetched) ==
  IF fetched.kind = "cancelled" THEN ExceptionResult ELSE extract_profile_info(url, fetched)

\* variant: a result is stored when its task settles, in completion order
result_slot_by_completion(i, done_tasks) == Cardinality(done_tasks) + 1

\* asyncio.gather keeps the results in the order of its arguments: the
\* result of task i goes to slot i, whenever the task settles
result_slot(i, done_tasks) == i

\* valid_profiles = [result for result in profile_results if isinstance(result, ProfileResult)]
filter_valid(results) == SelectSeq(results, IsProfileResult)

ProfilesResponse(profiles) == [status |-> 200, profiles |-> profiles]

\* raise HTTPException(status_code=500, ...)
HTTPException == [status |-> 500, profiles |-> <<>>]

NoResponse == [status |-> 0, profiles |-> <<>>]

----------------------------------------------------------------------------
(* POST /profiles: one request, one step per suspension point *)

\* completions that may overtake an earlier-submitted pending task
MaxOvertakes == 1

NoReply == [kind |-> "none", status |-> 0, content |-> <<>>]

PipelineInit ==
  /\ pc = "start"
  /\ OPENROUTER_API_KEY \in BOOLEAN
  /\ SERPAPI_KEY \in BOOLEAN
  /\ llm = NoReply
  /\ keywords = <<>>
  /\ search_called = FALSE
  /\ inflight = {}
  /\ queries = <<>>
  /\ all_urls = <<>>
  /\ profile_urls = <<>>
  /\ profile_results = <<>>
  /\ settled = {}
  /\ completed = <<>>
  /\ overtakes = 0
  /\ fetch_log = <<>>
  /\ valid_profiles = <<>>
  /\ response = NoResponse

PipelineIdle ==
  /\ pc = "idle"
  /\ OPENROUTER_API_KEY = TRUE
  /\ SERPAPI_KEY = TRUE
  /\ llm = NoReply
  /\ keywords = <<>>
  /\ search_called = FALSE
  /\ inflight = {}
  /\ queries = <<>>
  /\ all_urls = <<>>
  /\ profile_urls = <<>>
  /\ profile_results = <<>>
  /\ settled = {}
  /\ completed = <<>>
  /\ overtakes = 0
  /\ fetch_log = <<>>
  /\ valid_profiles = <<>>
  /\ response = NoResponse

HarnessIdle ==
  /\ fpc = "idle"
  /\ d_in = <<>>
  /\ d_out = <<>>
  /\ d_out2 = <<>>
  /\ u_in = IdleUrl
  /\ u_out = FALSE

\* the handler ends with this response
Respond(r) ==
  /\ response' = r
  /\ pc' = "done"

\* extract_profiles enters extract_keywords_with_openrouter: without the
\* credential it raises, otherwise it posts the prompt and suspends
StartRequest ==
  /\ pc = "start"
  /\ IF ~OPENROUTER_API_KEY
     THEN Respond(HTTPException)
     ELSE /\ pc' = "await_llm"
          /\ UNCHANGED response
  /\ UNCHANGED <<OPENROUTER_API_KEY, SERPAPI_KEY, llm, keywords, search_called, inflight, queries, all_urls, profile_urls, profile_results, settled, completed, overtakes, fetch_log, valid_profiles>>
  /\ UNCHANGED <<fpc, dedup_vars, domain_vars>>

\* the tasks of asyncio.gather are launched, one per profile URL
Launch(urls) ==
  /\ profile_urls' = urls
  /\ profile_results' = [i \in 1..Len(urls) |-> Pending]
  /\ fetch_log' = [i \in 1..Len(urls) |-> [url |-> urls[i], fetched |-> [kind |-> "pending", status |-> 0, name |-> <<>>, title |-> <<>>]]]
  /\ pc' = "await_gather"

\* the chat-completion call settles; on success the keywords are parsed, the
\* empty list short-circuits, and otherwise search_with_serpapi is entered
\* and issues the query of the first keyword of its loop (a loop over no
\* keyword returns the empty all_urls at once)
ReceiveLLM(reply) ==
  /\ pc = "await_llm"
  /\ llm' = reply
  /\ IF reply.kind = "error" \/ reply.status # 200
     THEN /\ Respond(HTTPException)
          /\ UNCHANGED <<keywords, search_called, inflight, profile_urls, profile_results, fetch_log>>
     ELSE LET kws == parse_keywords(reply.content)
          IN /\ keywords' = kws
             /\ IF no_keywords(kws)
                THEN /\ Respond(ProfilesResponse(<<>>))
                     /\ UNCHANGED <<search_called, inflight, profile_urls, profile_results, fetch_log>>
                ELSE /\ search_called' = TRUE
                     /\ IF ~SERPAPI_KEY
                        THEN /\ Respond(HTTPException)
                             /\ UNCHANGED <<inflight, profile_urls, profile_results, fetch_log>>
                        ELSE IF Len(search_keywords(kws)) > 0
                        THEN /\ inflight' = {1}
                             /\ pc' = "await_search"
                             /\ UNCHANGED <<response, profile_urls, profile_results, fetch_log>>
                        ELSE /\ inflight' = {}
                             /\ Launch(filter_profile_urls(all_urls))
                             /\ UNCHANGED response
  /\ UNCHANGED <<OPENROUTER_API_KEY, SERPAPI_KEY, queries, all_urls, settled, completed, overtakes, valid_profiles>>
  /\ UNCHANGED <<fpc, dedup_vars, domain_vars>>

\* the query in flight settles: a transport error propagates out of
\* search_with_serpapi; otherwise the links of a 200 answer are appended and
\* the loop goes on to the next keyword, or returns all_urls to the handler,
\* which filters, truncates and launches the extraction tasks
ReceiveSearch(answer) ==
  /\ pc = "await_search"
  /\ \E i \in inflight :
       /\ answer \in SearchIndex(search_keywords(keywords)[i])
       /\ queries' = Append(queries, [keyword |-> search_keywords(keywords)[i], answer |-> answer])
       /\ IF answer.kind = "error"
          THEN /\ inflight' = {}
               /\ Respond(HTTPException)
               /\ UNCHANGED <<all_urls, profile_urls, profile_results, fetch_log>>
          ELSE /\ all_urls' = all_urls \o collected_urls(answer)
               /\ IF i < Len(search_keywords(keywords))
                  THEN /\ inflight' = {i + 1}
                       /\ UNCHANGED <<pc, response, profile_urls, profile_results, fetch_log>>
                  ELSE /\ inflight' = {}
                       /\ Launch(filter_profile_urls(all_urls'))
                       /\ UNCHANGED response
  /\ UNCHANGED <<OPENROUTER_API_KEY, SERPAPI_KEY, llm, keywords, search_called, settled, completed, overtakes, valid_profiles>>
  /\ UNCHANGED <<fpc, dedup_vars, domain_vars>>

PendingTasks == (1..Len(profile_urls)) \ settled

\* extraction task i settles with what its fetch did
TaskSettle(i, fetched) ==
  /\ pc = "await_gather"
  /\ i \in PendingTasks
  /\ fetched \in Web(profile_urls[i])
  /\ LET overtaking == \E j \in PendingTasks : j < i
     IN /\ overtaking => overtakes < MaxOvertakes
        /\ overtakes' = IF overtaking THEN overtakes + 1 ELSE overtakes
  /\ profile_results' = [profile_results EXCEPT ![result_slot(i, settled)] = task_result(profile_urls[i], fetched)]
  /\ fetch_log' = [fetch_log EXCEPT ![i].fetched = fetched]
  /\ settled' = settled \cup {i}
  /\ completed' = Append(completed, task_result(profile_urls[i], fetched))
  /\ UNCHANGED <<pc, OPENROUTER_API_KEY, SERPAPI_KEY, llm, keywords, search_called, inflight, queries, all_urls, profile_urls, valid_profiles, response>>
  /\ UNCHANGED <<fpc, dedup_vars, domain_vars>>

\* every task has settled: gather returns, the handler keeps the
\* ProfileResult values, deduplicates them and responds
GatherReturn ==
  /\ pc = "await_gather"
  /\ PendingTasks = {}
  /\ valid_profiles' = filter_valid(profile_results)
  /\ Respond(ProfilesResponse(deduplicate_profiles(valid_profiles')))
  /\ UNCHANGED <<OPENROUTER_API_KEY, SERPAPI_KEY, llm, keywords, search_called, inflight, queries, all_urls, profile_urls, profile_results, settled, completed, overtakes, fetch_log>>
  /\ UNCHANGED <<fpc, dedup_vars, domain_vars>>

Init == PipelineInit /\ HarnessIdle

Next ==
  \/ StartRequest
  \/ \E reply \in LLMOutcomes : ReceiveLLM(reply)
  \/ \E k \in 1..Len(keywords) : \E answer \in SearchIndex(keywords[k]) : ReceiveSearch(answer)
  \/ \E i \in 1..Len(profile_urls) : \E fetched \in Web(profile_urls[i]) : TaskSettle(i, fetched)
  \/ GatherReturn

Spec == Init /\ [][Next]_vars

----------------------------------------------------------------------------
(* deduplicate_profiles applied to every candidate list, then to its result *)

DedupInit ==
  /\ PipelineIdle
  /\ fpc = "input"
  /\ d_in \in CandidateLists
  /\ d_out = <<>>
  /\ d_out2 = <<>>
  /\ u_in = IdleUrl
  /\ u_out = FALSE

ApplyDedup ==
  /\ fpc = "input"
  /\ d_out' = deduplicate_profiles(d_in)
  /\ fpc' = "once"
  /\ UNCHANGED <<d_in, d_out2, domain_vars, pipeline_vars>>

ReapplyDedup ==
  /\ fpc = "once"
  /\ d_out2' = deduplicate_profiles(d_out)
  /\ fpc' = "twice"
  /\ UNCHANGED <<d_in, d_out, domain_vars, pipeline_vars>>

DedupNext == ApplyDedup \/ ReapplyDedup

SpecDedup == DedupInit /\ [][DedupNext]_vars

----------------------------------------------------------------------------
(* is_profile_domain applied to every URL of the harness *)

DomainInit ==
  /\ PipelineIdle
  /\ fpc = "input"
  /\ u_in \in [host : Hosts, shape : UrlShapes]
  /\ u_out = FALSE
  /\ d_in = <<>>
  /\ d_out = <<>>
  /\ d_out2 = <<>>

Classify ==
  /\ fpc = "input"
  /\ u_out' = is_profile_domain(render(u_in))
  /\ fpc' = "classified"
  /\ UNCHANGED <<u_in, dedup_vars, pipeline_vars>>

DomainNext == Classify

SpecDomain == DomainInit /\ [][DomainNext]_vars

----------------------------------------------------------------------------
(* Properties of deduplicate_profiles (SpecDedup) *)

Collide(p, q) == normalized_url(p) = normalized_url(q) \/ normalized_name(p) = normalized_name(q)

\* the elements of seq at the indices of K, in increasing order of index
Restrict(seq, K) ==
  LET idx == SelectSeq([i \in 1..Len(seq) |-> i], LAMBDA i : i \in K)
  IN [k \in 1..Len(idx) |-> seq[idx[k]]]

\* K is the set of kept indices: i is kept iff it collides with no earlier kept one
IsKeptSet(seq, K) ==
  \A i \in 1..Len(seq) : i \in K <=> (\A j \in K : j < i => ~Collide(seq[j], seq[i]))

\* C7: deduplicate_profiles(deduplicate_profiles(c)) = deduplicate_profiles(c),
\* the same elements in the same order
DedupIdempotent == fpc = "twice" => d_out2 = d_out

\* C7 witness: a list that lost a candidate and kept at least two was re-deduplicated
DedupIdempotentWitness == fpc = "twice" /\ Len(d_out) >= 2 /\ Len(d_out) < Len(d_in)

\* C9: the result is the input restricted, in input order, to the candidates
\* whose normalized URL and normalized name both differ from those of every
\* earlier kept candidate; a dropped candidate marks nothing as seen
DedupKeepsFirstSeen ==
  fpc \in {"once", "twice"} =>
    \E K \in SUBSET (1..Len(d_in)) : IsKeptSet(d_in, K) /\ d_out = Restrict(d_in, K)

\* C9 witness: the second candidate is dropped for the URL of the first, and
\* the third, which collides with the dropped second only, is kept
DedupKeepsFirstSeenWitness ==
  /\ fpc = "once"
  /\ Len(d_in) = 3
  /\ normalized_url(d_in[2]) = normalized_url(d_in[1])
  /\ normalized_name(d_in[3]) = normalized_name(d_in[2])
  /\ ~Collide(d_in[1], d_in[3])
  /\ d_out = <<d_in[1], d_in[3]>>

----------------------------------------------------------------------------
(* Properties of is_profile_domain (SpecDomain) *)

\* the host of the URL as the claim reads it: lower-cased labels, without a
\* leading "www." ; userinfo and port are not part of the host
HostLabelsOf(u) ==
  LET labels == [k \in 1..Len(u.host) |-> lower(u.host[k])]
  IN IF Len(labels) >= 2 /\ labels[1] = <<"w", "w", "w">> THEN Tail(labels) ELSE labels

\* a URL without "//" has no host; a host with a lone bracket does not parse
HasHost(u) ==
  /\ u.shape # "noscheme"
  /\ \A k \in 1..Len(u.host) : \A c \in 1..Len(u.host[k]) : u.host[k][c] \notin {"[", "]"}

InCuratedSet(labels) ==
  \E k \in 1..Len(labels) : join(SubSeq(labels, k, Len(labels)), <<".">>) \in PROFILE_DOMAINS

LooksPersonal(labels) ==
  /\ \E k \in 1..Len(labels) : \E c \in 1..Len(labels[k]) : labels[k][c] \in {"-", "_"}
  /\ Len(labels) = 2
  /\ Len(labels[1]) > 5

ExpectedProfileDomain(u) ==
  HasHost(u) /\ (InCuratedSet(HostLabelsOf(u)) \/ LooksPersonal(HostLabelsOf(u)))

\* C8: for every URL, is_profile_domain is true exactly when the URL's host
\* (lower-cased, leading "www." stripped) equals or is a dot-suffixed
\* subdomain of a curated domain, or else has a hyphen or underscore, exactly
\* two labels and a first label longer than 5; otherwise false
ClassifierFollowsHost == fpc = "classified" => u_out = ExpectedProfileDomain(u_in)

----------------------------------------------------------------------------
(* Properties of the request pipeline (Spec) *)

Done == pc = "done"

\* keyword extraction returned (possibly no keyword)
KeywordsExtracted == llm.kind = "http" /\ llm.status = 200

\* search_with_serpapi returned all_urls to the handler
SearchReturned ==
  /\ KeywordsExtracted
  /\ search_called
  /\ SERPAPI_KEY
  /\ inflight = {}
  /\ Len(queries) = (IF Len(keywords) < 5 THEN Len(keywords) ELSE 5)
  /\ \A k \in 1..Len(queries) : queries[k].answer.kind = "http"

\* the links of the finished queries: query by query, and within a query in
\* the provider's order; only a 200 answer contributes, duplicates stay
RECURSIVE ExpectedUrls(_)
ExpectedUrls(qs) ==
  IF Len(qs) = 0 THEN <<>>
  ELSE LET a == qs[Len(qs)].answer
       IN ExpectedUrls(SubSeq(qs, 1, Len(qs) - 1)) \o
          (IF a.kind = "http" /\ a.status = 200
           THEN SelectSeq(a.organic_results, LAMBDA link : link # NoLink) ELSE <<>>)

\* a launched task whose fetch gave a 200 page with a non-blank name
Succeeded(entry) ==
  /\ entry.fetched.kind = "http"
  /\ entry.fetched.status = 200
  /\ strip(entry.fetched.name) # <<>>

\* the candidates of the succeeded tasks, in the order the tasks were submitted
SuccessCandidates ==
  LET ok == SelectSeq(fetch_log, Succeeded)
  IN [k \in 1..Len(ok) |-> ProfileResult(strip(ok[k].fetched.name), strip(ok[k].fetched.title), ok[k].url)]

\* C1: a successful response holds no two profiles with the same normalized
\* URL and no two with the same normalized name
ResponseProfilesUnique ==
  (Done /\ response.status = 200) =>
    \A i, j \in 1..Len(response.profiles) :
      i # j => /\ normalized_url(response.profiles[i]) # normalized_url(response.profiles[j])
               /\ normalized_name(response.profiles[i]) # normalized_name(response.profiles[j])

\* C1 witness: a successful response of two profiles from which a colliding
\* candidate was removed
ResponseProfilesUniqueWitness ==
  /\ Done
  /\ response.status = 200
  /\ Len(response.profiles) >= 2
  /\ Len(valid_profiles) > Len(response.profiles)

\* C2 as claimed: among colliding candidates the one whose extraction
\* completed first is kept, i.e. the response is the deduplication of the
\* candidates in completion order
DedupFollowsCompletionOrder ==
  (Done /\ SearchReturned) => response.profiles = deduplicate_profiles(filter_valid(completed))

\* C2 amended: among colliding candidates the one submitted first is kept;
\* the response is the deduplication of the succeeded candidates in
\* submission order, whatever the completion order
DedupFollowsSubmissionOrder ==
  (Done /\ SearchReturned) => response.profiles = deduplicate_profiles(SuccessCandidates)

\* C2 witness: two colliding candidates completed in the reverse of their
\* submission order, and the earlier-submitted one is in the response
DedupFollowsSubmissionOrderWitness ==
  /\ Done
  /\ SearchReturned
  /\ Len(valid_profiles) >= 2
  /\ Collide(valid_profiles[1], valid_profiles[2])
  /\ filter_valid(completed)[1] = valid_profiles[2]
  /\ response.profiles[1] = valid_profiles[1]
  /\ valid_profiles[1] # valid_profiles[2]

\* C3 as claimed: a non-200 answer contributes no URL, and the request fails
\* in the search stage only if every keyword attempt raised a transport error
SearchFailsOnlyIfEveryAttemptFails ==
  (Done /\ search_called /\ SERPAPI_KEY) =>
    /\ all_urls = ExpectedUrls(queries)
    /\ response.status = 500 => \A k \in 1..Len(queries) : queries[k].answer.kind = "error"

\* C3 amended: a non-200 answer contributes no URL while the other keywords
\* contribute theirs; a transport error on any one keyword attempt ends the
\* search at that keyword and fails the request with status 500
SearchFailsOnFirstTransportError ==
  (search_called /\ SERPAPI_KEY) =>
    /\ all_urls = ExpectedUrls(queries)
    /\ \A k \in 1..Len(queries) :
         queries[k].answer.kind = "error" => (k = Len(queries) /\ Done /\ response.status = 500)
    /\ (Done /\ response.status = 500) => queries[Len(queries)].answer.kind = "error"

\* C3 witness: a request that failed on a transport error after one keyword
\* had contributed URLs and another had been answered with a non-200 status
SearchFailsOnFirstTransportErrorWitness ==
  /\ Done
  /\ response.status = 500
  /\ Len(queries) >= 3
  /\ queries[Len(queries)].answer.kind = "error"
  /\ \E k \in 1..Len(queries) : queries[k].answer.kind = "http" /\ queries[k].answer.status # 200
  /\ Len(all_urls) > 0

\* C4: once keywords and search succeeded the request answers 200, and the
\* candidates handed to deduplication are exactly those of the extraction
\* tasks that succeeded, whichever tasks failed
ExtractionFailuresIsolated ==
  (Done /\ SearchReturned) =>
    /\ response.status = 200
    /\ valid_profiles = SuccessCandidates

\* C4 witness: 3 of 20 extraction tasks failed and 17 candidates survive
ExtractionFailuresIsolatedWitness ==
  /\ Done
  /\ SearchReturned
  /\ Len(fetch_log) = 20
  /\ Cardinality({i \in 1..Len(fetch_log) : ~Succeeded(fetch_log[i])}) = 3
  /\ \E i \in 1..Len(fetch_log) : fetch_log[i].fetched.kind = "timeout"
  /\ \E i \in 1..Len(fetch_log) : fetch_log[i].fetched.kind = "http" /\ fetch_log[i].fetched.status # 200
  /\ Len(valid_profiles) = 17
  /\ response.status = 200

\* the indices of the search results that is_profile_domain accepts, ascending
AcceptedIndices ==
  SelectSeq([i \in 1..Len(all_urls) |-> i], LAMBDA i : is_profile_domain(all_urls[i]))

\* C5: the URLs fetched are exactly the first min(20, n) of the n accepted
\* search results, in search-result order; nothing else is ever fetched
FetchesFirstTwentyAccepted ==
  IF pc = "await_gather" \/ (Done /\ SearchReturned)
  THEN LET accepted == AcceptedIndices
       IN /\ Len(fetch_log) = (IF Len(accepted) < 20 THEN Len(accepted) ELSE 20)
          /\ \A k \in 1..Len(fetch_log) : fetch_log[k].url = all_urls[accepted[k]]
  ELSE fetch_log = <<>>

\* C5 witness: more than 20 accepted results and a rejected one before the
\* twentieth; 20 pages fetched
FetchesFirstTwentyAcceptedWitness ==
  /\ Done
  /\ SearchReturned
  /\ LET accepted == AcceptedIndices
     IN /\ Len(accepted) > 20
        /\ accepted[20] > 20
  /\ Len(fetch_log) = 20
  /\ \A k \in 1..20 : fetch_log[k].fetched.kind # "pending"

\* C6: when keyword extraction succeeds with zero keywords the response is
\* the empty profile list with status 200, the search stage was never
\* invoked and no page was fetched
EmptyKeywordsShortCircuit ==
  (Done /\ KeywordsExtracted /\ keywords = <<>>) =>
    /\ response = ProfilesResponse(<<>>)
    /\ ~search_called
    /\ queries = <<>>
    /\ inflight = {}
    /\ fetch_log = <<>>

\* C6 witness: a reply of blank tokens only, with the search credential absent
EmptyKeywordsShortCircuitWitness ==
  /\ Done
  /\ KeywordsExtracted
  /\ keywords = <<>>
  /\ Len(llm.content) > 0
  /\ ~SERPAPI_KEY
  /\ response.status = 200

\* C10: at most 5 queries, for the first 5 keywords in keyword order, one in
\* flight at a time and none before keyword extraction has finished; the
\* list returned is the links of the answers in keyword order, then provider
\* order, duplicates kept
SearchIsSequentialAndCapped ==
  /\ Len(queries) + Cardinality(inflight) <= 5
  /\ Cardinality(inflight) <= 1
  /\ Len(queries) <= Len(keywords)
  /\ \A k \in 1..Len(queries) : queries[k].keyword = keywords[k]
  /\ inflight # {} => (inflight = {Len(queries) + 1} /\ pc = "await_search")
  /\ (inflight # {} \/ queries # <<>>) => KeywordsExtracted
  /\ SearchReturned => all_urls = ExpectedUrls(queries)

\* C10 witness: ten keywords, five queries, a result list with a repeated URL
SearchIsSequentialAndCappedWitness ==
  /\ Done
  /\ SearchReturned
  /\ Len(keywords) = 10
  /\ Len(queries) = 5
  /\ \E i, j \in 1..Len(all_urls) : i < j /\ all_urls[i] = all_urls[j]

====
